---- MODULE Spec2Model ----
(***************************************************************************)
(* SAPT0 in atomic orbitals (Tutorials/07_Symmetry_Adapted_Perturbation_   *)
(* Theory/7b_sapt0_ao.ipynb).  The notebook is a single pass over eight    *)
(* code cells; each cell is one action, the notebook's variables are the   *)
(* state.  Matrices are sequences of rows (M[i][j]), rank-4 tensors are    *)
(* four-level sequences (I[k][l][m][n]), so shapes are carried by the      *)
(* values as they are by numpy arrays.                                     *)
(*                                                                         *)
(* Arithmetic.  The AO quantities are built with + - * only and are        *)
(* modelled by exact integers.  The dispersion cell divides, so the        *)
(* quantities that depend on it are modelled by exact fractions extended   *)
(* with the IEEE-754 special values: [n |-> 1, d |-> 0] is +inf,           *)
(* [n |-> -1, d |-> 0] is -inf and [n |-> 0, d |-> 0] is NaN.  Rounding    *)
(* is not modelled.                                                        *)
(***************************************************************************)
EXTENDS Integers, Sequences, FiniteSets, TLC

VARIABLES pc, sapt, im, Elst10, Exch100, disp, Disp200, t_rsab, t_lnkm, ExchDisp20,
          ind, Ind20r, exind, ExchInd20_ab, ExchInd20_ba, ExchInd20r, sapt0

vars == <<pc, sapt, im, Elst10, Exch100, disp, Disp200, t_rsab, t_lnkm, ExchDisp20,
          ind, Ind20r, exind, ExchInd20_ab, ExchInd20_ba, ExchInd20r, sapt0>>

(***************************************************************************)
(* Bounds of the model.                                                    *)
(***************************************************************************)
\* number of AO basis functions
NBF == 2
\* occupied orbitals per monomer
NOcc == 2
\* virtual orbitals per monomer
NVir == 1
\* number of input families for the orbitals and the AO integrals
NumSeeds == 6
\* orbital-energy profiles 0..MaxEps (profile 0 is fully degenerate)
MaxEps == 2
\* amplitude of the v_abrs input, 0..MaxAmp (0 is the identically-zero slice)
MaxAmp == 1
\* the amplitudes are rescaled by the constants -MaxScale..MaxScale
MaxScale == 2
\* the virtual orbitals of A are given on NBF + x basis functions, x in 0..MaxExtraRows
\* (x > 0 is a session whose matrices do not agree on the size of the basis)
MaxExtraRows == 1

\* value of a variable whose cell has not run yet
Unset == <<>>

(***************************************************************************)
(* Floating-point values of the dispersion path: extended fractions.       *)
(***************************************************************************)
Abs(x) == IF x < 0 THEN -x ELSE x

Sgn(x) == IF x < 0 THEN -1 ELSE IF x > 0 THEN 1 ELSE 0

RECURSIVE Gcd(_, _)
Gcd(a, b) == IF b = 0 THEN a ELSE Gcd(b, a % b)

FNorm(n, d) ==
    IF d = 0 THEN [n |-> Sgn(n), d |-> 0]
    ELSE LET g == Gcd(Abs(n), Abs(d))
         IN  [n |-> (Sgn(d) * n) \div g, d |-> Abs(d) \div g]

FInt(i) == [n |-> i, d |-> 1]

NaN == [n |-> 0, d |-> 0]

IsFinite(x) == x.d # 0

IsNaN(x) == x.d = 0 /\ x.n = 0

FMul(x, y) == FNorm(x.n * y.n, x.d * y.d)

FAdd(x, y) ==
    IF x.d # 0 /\ y.d # 0 THEN FNorm(x.n * y.d + y.n * x.d, x.d * y.d)
    ELSE IF IsNaN(x) \/ IsNaN(y) THEN NaN
    ELSE IF x.d # 0 THEN y
    ELSE IF y.d # 0 THEN x
    ELSE IF x.n = y.n THEN x ELSE NaN

FScale(c, x) == FMul(FInt(c), x)

\* 1 / i for a float64 i holding an integer: 1 / 0 is +inf (numpy warns, does not raise)
FInv(i) == FNorm(1, i)

\* the sequence <<F(1), ..., F(n)>>
Seq1(n, F(_)) ==
    LET RECURSIVE Build(_)
        Build(k) == IF k = 0 THEN <<>> ELSE Append(Build(k - 1), F(k))
    IN  Build(n)

RECURSIVE FSumTo(_, _)
FSumTo(f, n) == IF n = 0 THEN FInt(0) ELSE FAdd(FSumTo(f, n - 1), f[n])

FSum(f) == FSumTo(f, Len(f))

(***************************************************************************)
(* numpy on integer-valued arrays.                                         *)
(***************************************************************************)
RECURSIVE SumTo(_, _)
SumTo(f, n) == IF n = 0 THEN 0 ELSE SumTo(f, n - 1) + f[n]

Sum(f) == SumTo(f, Len(f))

\* A.T
Tr(A) == Seq1(Len(A[1]), LAMBDA j : Seq1(Len(A), LAMBDA i : A[i][j]))

\* np.dot(A, B)
Dot(A, B) ==
    Seq1(Len(A), LAMBDA i : Seq1(Len(B[1]), LAMBDA j :
        Sum(Seq1(Len(B), LAMBDA k : A[i][k] * B[k][j]))))

\* np.vdot(A, B) of two real matrices: sum_KL A_KL B_KL
vdot(A, B) ==
    Sum(Seq1(Len(A), LAMBDA i : Sum(Seq1(Len(A[1]), LAMBDA j : A[i][j] * B[i][j]))))

\* ca * A + cb * B, element-wise
Lin(ca, A, cb, B) ==
    Seq1(Len(A), LAMBDA i : Seq1(Len(A[1]), LAMBDA j : ca * A[i][j] + cb * B[i][j]))

\* sapt.chain_dot(*args): the product of a chain of matrices, left to right
RECURSIVE chain_dot(_)
chain_dot(Ms) ==
    IF Len(Ms) = 1 THEN Ms[1]
    ELSE Dot(chain_dot(SubSeq(Ms, 1, Len(Ms) - 1)), Ms[Len(Ms)])

(***************************************************************************)
(* The inputs the helper_SAPT session hands to the notebook.  They are     *)
(* families indexed by a seed: entries in {-1, 0, 1}, the overlap and the  *)
(* nuclear-attraction matrices symmetric, the ERI tensor with the chemist  *)
(* symmetries (KL|MN) = (LK|MN) = (KL|NM) = (MN|KL).                       *)
(***************************************************************************)
Min(a, b) == IF a < b THEN a ELSE b

Max(a, b) == IF a < b THEN b ELSE a

Mix(s, x) == (11 * s * s + 10 * s * x + 12 * x * x + 11 * s + 4 * x + 1) % 43

Gen(s, x) == (Mix(s, x) % 3) - 1

GenMat(s, c, n, m) ==
    Seq1(n, LAMBDA i : Seq1(m, LAMBDA j : Gen(s, 64 * c + 8 * i + j)))

GenSym(s, c, n) ==
    Seq1(n, LAMBDA i : Seq1(n, LAMBDA j : Gen(s, 64 * c + 8 * Min(i, j) + Max(i, j))))

\* index of the unordered pair {k, l}
PairIndex(k, l) == Min(k, l) + (Max(k, l) * (Max(k, l) - 1)) \div 2

GenERI(s, c, n) ==
    Seq1(n, LAMBDA k : Seq1(n, LAMBDA l : Seq1(n, LAMBDA m : Seq1(n, LAMBDA q :
        Gen(s, 256 * c + 16 * Min(PairIndex(k, l), PairIndex(m, q))
                       + Max(PairIndex(k, l), PairIndex(m, q)))))))

GenT4(s, c, amp, n1, n2, n3, n4) ==
    Seq1(n1, LAMBDA i : Seq1(n2, LAMBDA j : Seq1(n3, LAMBDA k : Seq1(n4, LAMBDA l :
        amp * Gen(s, 256 * c + 64 * i + 16 * j + 4 * k + l)))))

\* orbital energies of profile e.  Profile 0 is fully degenerate (every
\* denominator eps_a + eps_b - eps_r - eps_s is zero), profile 1 has no gap
\* between occupied and virtual levels (some denominators are zero), the
\* others have a gap of 1 (no denominator is zero).  The levels take few
\* values, so that the denominators have a small common multiple.
GenEps(e) ==
    IF e = 0
    THEN [a |-> Seq1(NOcc, LAMBDA i : 0), b |-> Seq1(NOcc, LAMBDA i : 0),
          r |-> Seq1(NVir, LAMBDA i : 0), s |-> Seq1(NVir, LAMBDA i : 0)]
    ELSE [a |-> Seq1(NOcc, LAMBDA i : -((i + e) % 2)),
          b |-> Seq1(NOcc, LAMBDA i : -2 * ((i + 1) % 2)),
          r |-> Seq1(NVir, LAMBDA i : (IF e = 1 THEN 0 ELSE 1) + ((i - 1) % 2)),
          s |-> Seq1(NVir, LAMBDA i : 0)]

\* helper_SAPT(dimer, memory=8, algorithm='AO'): the session object
Session(s, e, amp, x) ==
    [orbitals |-> [a |-> GenMat(s, 1, NBF, NOcc), b |-> GenMat(s, 2, NBF, NOcc),
                   r |-> GenMat(s, 3, NBF + x, NVir), s |-> GenMat(s, 4, NBF, NVir)],
     S        |-> GenSym(s, 5, NBF),
     V_A      |-> GenSym(s, 6, NBF),
     V_B      |-> GenSym(s, 7, NBF),
     I        |-> GenERI(s, 8, NBF),
     nuc_rep  |-> Gen(s, 9),
     eps      |-> GenEps(e),
     v        |-> [abrs |-> GenT4(s, 10, amp, NOcc, NOcc, NVir, NVir),
                   rsab |-> GenT4(s, 11, 1, NVir, NVir, NOcc, NOcc)],
     chf      |-> [B |-> [C |-> GenMat(s, 12, NVir, NOcc), E |-> Gen(s, 13) - 2],
                   A |-> [C |-> GenMat(s, 14, NVir, NOcc), E |-> Gen(s, 15) - 2]]]

(***************************************************************************)
(* helper_SAPT.compute_sapt_JK(Cleft, Cright, tensor=None): the            *)
(* generalized Coulomb and exchange matrices of X = A.T.B^T (A.B^T when    *)
(* the tag tensor is omitted), J[X]_KL = (KL|MN) X_MN and                  *)
(* K[X]_KL = (KM|NL) X_MN.                                                 *)
(***************************************************************************)
NoTensor == <<>>

\* the builder with the tag tensor left out of the density
JKDensity_IgnoresTensor(Cleft, Cright, tensor) == Dot(Cleft, Tr(Cright))

JKDensity(Cleft, Cright, tensor) ==
    IF tensor = NoTensor THEN Dot(Cleft, Tr(Cright))
    ELSE chain_dot(<<Cleft, tensor, Tr(Cright)>>)

\* J[X]_KL = sum_MN (KL|MN) X_MN
Coulomb(I, X) ==
    Seq1(Len(I), LAMBDA K : Seq1(Len(I), LAMBDA L :
        Sum(Seq1(Len(I), LAMBDA M : Sum(Seq1(Len(I), LAMBDA N : I[K][L][M][N] * X[M][N]))))))

\* K[X]_KL = sum_MN (KM|NL) X_MN
Exchange(I, X) ==
    Seq1(Len(I), LAMBDA K : Seq1(Len(I), LAMBDA L :
        Sum(Seq1(Len(I), LAMBDA M : Sum(Seq1(Len(I), LAMBDA N : I[K][M][N][L] * X[M][N]))))))

compute_sapt_JK(sp, Cleft, Cright, tensor) ==
    LET X == JKDensity(Cleft, Cright, tensor)
    IN  [J |-> Coulomb(sp.I, X), K |-> Exchange(sp.I, X)]

(***************************************************************************)
(* Cell "Build intermediates".                                             *)
(***************************************************************************)
\* the tag with Ci written for Cj
TagIJ_WrongOrbital(Ci, S, Cj) == chain_dot(<<Tr(Ci), S, Ci>>)

\* tensor=sapt.chain_dot(Ci.T, S, Cj)
TagIJ(Ci, S, Cj) == chain_dot(<<Tr(Ci), S, Cj>>)

\* w_X = V_X + 2 * J_XX
ElstPotential(V, J) == Lin(1, V, 2, J)

\* h_X = V_X + 2 * J_XX - K_XX
FockLike(V, J, K) == Lin(1, Lin(1, V, 2, J), -1, K)

Intermediates(sp) ==
    LET Ci == sp.orbitals.a
        Cj == sp.orbitals.b
        S  == sp.S
        ii == compute_sapt_JK(sp, Ci, Ci, NoTensor)
        jj == compute_sapt_JK(sp, Cj, Cj, NoTensor)
        ij == compute_sapt_JK(sp, Ci, Cj, TagIJ(Ci, S, Cj))
    IN  [Pi  |-> Dot(sp.orbitals.a, Tr(sp.orbitals.a)),
         Pj  |-> Dot(sp.orbitals.b, Tr(sp.orbitals.b)),
         S   |-> S,
         Ci  |-> Ci,
         Cj  |-> Cj,
         Cr  |-> sp.orbitals.r,
         Cs  |-> sp.orbitals.s,
         I   |-> sp.I,
         Jii |-> ii.J, Kii |-> ii.K,
         Jjj |-> jj.J, Kjj |-> jj.K,
         Jij |-> ij.J, Kij |-> ij.K,
         w_A |-> ElstPotential(sp.V_A, ii.J),
         w_B |-> ElstPotential(sp.V_B, jj.J),
         h_A |-> FockLike(sp.V_A, ii.J, ii.K),
         h_B |-> FockLike(sp.V_B, jj.J, jj.K)]

(***************************************************************************)
(* Cell "Build electrostatics".                                            *)
(***************************************************************************)
\* the attraction of nucleus A taken with the density of A
ElstEnergy_AttractionOnSelf(sp, m) ==
    LET two_el    == 2 * vdot(m.Pi, m.Jjj)
        att_a     == vdot(sp.V_A, m.Pi)
        att_b     == vdot(sp.V_B, m.Pi)
        rep       == sp.nuc_rep
        elst_ijij == 2 * (two_el + att_a + att_b) + rep
    IN  elst_ijij

\* the factor 2 of the two-electron term left out
ElstEnergy_SingleCoulomb(sp, m) ==
    LET two_el    == vdot(m.Pi, m.Jjj)
        att_a     == vdot(sp.V_A, m.Pj)
        att_b     == vdot(sp.V_B, m.Pi)
        rep       == sp.nuc_rep
        elst_ijij == 2 * (two_el + att_a + att_b) + rep
    IN  elst_ijij

ElstEnergy(sp, m) ==
    LET two_el    == 2 * vdot(m.Pi, m.Jjj)
        att_a     == vdot(sp.V_A, m.Pj)
        att_b     == vdot(sp.V_B, m.Pi)
        rep       == sp.nuc_rep
        elst_ijij == 2 * (two_el + att_a + att_b) + rep
    IN  elst_ijij

(***************************************************************************)
(* Cell "Start exchange".                                                  *)
(***************************************************************************)
\* the second term taken with the potentials w_A + w_B for the Fock matrices
ExchEnergy_PotentialForFock(sp, m) ==
    LET exch0 == 0
        exch1 == exch0 - 2 * vdot(m.Pj, m.Kii)
        exch2 == exch1 - 2 * vdot(chain_dot(<<m.Pi, m.S, m.Pj>>), Lin(1, m.w_A, 1, m.w_B))
        exch3 == exch2 + 2 * vdot(chain_dot(<<m.Pj, m.S, m.Pi, m.S, m.Pj>>), m.w_A)
        exch4 == exch3 + 2 * vdot(chain_dot(<<m.Pi, m.S, m.Pj, m.S, m.Pi>>), m.w_B)
        exch5 == exch4 - 2 * vdot(chain_dot(<<m.Pi, m.S, m.Pj>>), m.Kij)
    IN  exch5

ExchEnergy(sp, m) ==
    LET exch0 == 0
        exch1 == exch0 - 2 * vdot(m.Pj, m.Kii)
        exch2 == exch1 - 2 * vdot(chain_dot(<<m.Pi, m.S, m.Pj>>), Lin(1, m.h_A, 1, m.h_B))
        exch3 == exch2 + 2 * vdot(chain_dot(<<m.Pj, m.S, m.Pi, m.S, m.Pj>>), m.w_A)
        exch4 == exch3 + 2 * vdot(chain_dot(<<m.Pi, m.S, m.Pj, m.S, m.Pi>>), m.w_B)
        exch5 == exch4 - 2 * vdot(chain_dot(<<m.Pi, m.S, m.Pj>>), m.Kij)
    IN  exch5

(***************************************************************************)
(* Cell "Start E200 Disp".                                                 *)
(***************************************************************************)
\* sum over four indices of a float-valued term
FSum4(n1, n2, n3, n4, Term(_, _, _, _)) ==
    FSum(Seq1(n1, LAMBDA i : FSum(Seq1(n2, LAMBDA j : FSum(Seq1(n3, LAMBDA k :
        FSum(Seq1(n4, LAMBDA l : Term(i, j, k, l)))))))))

\* sapt.v('abrs'), sapt.v('rsab'): the MO integral slices
sapt_v(sp, string) == IF string = "abrs" THEN sp.v.abrs ELSE sp.v.rsab

\* sapt.eps(space): the orbital energies of one orbital space
sapt_eps(sp, space) ==
    CASE space = "a" -> sp.eps.a
      [] space = "b" -> sp.eps.b
      [] space = "r" -> sp.eps.r
      [] space = "s" -> sp.eps.s

\* e_rsab = 1/(-eps_r - eps_s + eps_a + eps_b), broadcast over r, s, a, b
EnergyDenominators(sp) ==
    LET er == sapt_eps(sp, "r")
        es == sapt_eps(sp, "s")
        ea == sapt_eps(sp, "a")
        eb == sapt_eps(sp, "b")
    IN  Seq1(Len(er), LAMBDA r : Seq1(Len(es), LAMBDA s : Seq1(Len(ea), LAMBDA a :
            Seq1(Len(eb), LAMBDA b : FInv(-er[r] - es[s] + ea[a] + eb[b])))))

DispInputs(sp) ==
    [v_abrs |-> sapt_v(sp, "abrs"),
     v_rsab |-> sapt_v(sp, "rsab"),
     e_rsab |-> EnergyDenominators(sp)]

\* the einsum with the weight 2 for the weight 4
DispEnergy_HalfWeight(d) ==
    FScale(2, FSum4(Len(d.e_rsab), Len(d.e_rsab[1]), Len(d.e_rsab[1][1]),
                    Len(d.e_rsab[1][1][1]),
                    LAMBDA r, s, a, b :
                        FMul(FMul(d.e_rsab[r][s][a][b], FInt(d.v_rsab[r][s][a][b])),
                             FInt(d.v_abrs[a][b][r][s]))))

\* 4 * np.einsum('rsab,rsab,abrs->', e_rsab, v_rsab, v_abrs)
DispEnergy(d) ==
    FScale(4, FSum4(Len(d.e_rsab), Len(d.e_rsab[1]), Len(d.e_rsab[1][1]),
                    Len(d.e_rsab[1][1][1]),
                    LAMBDA r, s, a, b :
                        FMul(FMul(d.e_rsab[r][s][a][b], FInt(d.v_rsab[r][s][a][b])),
                             FInt(d.v_abrs[a][b][r][s]))))

(***************************************************************************)
(* Cell "Start E200 Exchange-Dispersion".                                  *)
(***************************************************************************)
\* t_rsab = np.einsum('rsab,rsab->rsab', v_rsab, e_rsab)
Amplitudes(v_rsab, e_rsab) ==
    Seq1(Len(e_rsab), LAMBDA r : Seq1(Len(e_rsab[1]), LAMBDA s :
        Seq1(Len(e_rsab[1][1]), LAMBDA a : Seq1(Len(e_rsab[1][1][1]), LAMBDA b :
            FMul(FInt(v_rsab[r][s][a][b]), e_rsab[r][s][a][b])))))

\* np.einsum('rsab,rl->lsab', t, M)
Transform1(t, M) ==
    Seq1(Len(M[1]), LAMBDA l : Seq1(Len(t[1]), LAMBDA s : Seq1(Len(t[1][1]), LAMBDA a :
        Seq1(Len(t[1][1][1]), LAMBDA b :
            FSum(Seq1(Len(M), LAMBDA r : FScale(M[r][l], t[r][s][a][b])))))))

\* np.einsum('lsab,sn->lnab', t, M)
Transform2(t, M) ==
    Seq1(Len(t), LAMBDA l : Seq1(Len(M[1]), LAMBDA n : Seq1(Len(t[1][1]), LAMBDA a :
        Seq1(Len(t[1][1][1]), LAMBDA b :
            FSum(Seq1(Len(M), LAMBDA s : FScale(M[s][n], t[l][s][a][b])))))))

\* np.einsum('lnab,ak->lnkb', t, M)
Transform3(t, M) ==
    Seq1(Len(t), LAMBDA l : Seq1(Len(t[1]), LAMBDA n : Seq1(Len(M[1]), LAMBDA k :
        Seq1(Len(t[1][1][1]), LAMBDA b :
            FSum(Seq1(Len(M), LAMBDA a : FScale(M[a][k], t[l][n][a][b])))))))

\* np.einsum('lnkb,bm->lnkm', t, M)
Transform4(t, M) ==
    Seq1(Len(t), LAMBDA l : Seq1(Len(t[1]), LAMBDA n : Seq1(Len(t[1][1]), LAMBDA k :
        Seq1(Len(M[1]), LAMBDA m :
            FSum(Seq1(Len(M), LAMBDA b : FScale(M[b][m], t[l][n][k][b])))))))

\* the back-transformation with the virtual orbitals of A and B exchanged
BackTransform_SwapsVirtuals(t, Cr, Cs, Ci, Cj) ==
    LET t_lsab == Transform1(t, Tr(Cs))
        t_lnab == Transform2(t_lsab, Tr(Cr))
        t_lnkb == Transform3(t_lnab, Tr(Ci))
    IN  Transform4(t_lnkb, Tr(Cj))

\* backtransform t_rsab to the AO basis
BackTransform(t, Cr, Cs, Ci, Cj) ==
    LET t_lsab == Transform1(t, Tr(Cr))
        t_lnab == Transform2(t_lsab, Tr(Cs))
        t_lnkb == Transform3(t_lnab, Tr(Ci))
    IN  Transform4(t_lnkb, Tr(Cj))

\* np.einsum('lnkm,...->', t, ...): W(l, n, k, m) is the product of the other operands
Einsum(t, W(_, _, _, _)) ==
    FSum4(Len(t), Len(t[1]), Len(t[1][1]), Len(t[1][1][1]),
          LAMBDA l, n, k, m : FScale(W(l, n, k, m), t[l][n][k][m]))

\* the interm without its factor 2
Interm12_SingleWeight(I, M) ==
    Seq1(Len(I), LAMBDA k : Seq1(Len(I), LAMBDA l : Seq1(Len(I), LAMBDA m : Seq1(Len(M), LAMBDA n :
        Sum(Seq1(Len(I), LAMBDA q : I[k][l][m][q] * M[n][q]))))))

\* interm = 2 * np.einsum('klmq,nq->klmn', I, M)
Interm12(I, M) ==
    Seq1(Len(I), LAMBDA k : Seq1(Len(I), LAMBDA l : Seq1(Len(I), LAMBDA m : Seq1(Len(M), LAMBDA n :
        2 * Sum(Seq1(Len(I), LAMBDA q : I[k][l][m][q] * M[n][q]))))))

\* the sum of the four einsums that build the third interm
Interm3(I, spbspa, spaspb) ==
    Seq1(Len(I), LAMBDA k : Seq1(Len(I), LAMBDA l : Seq1(Len(I), LAMBDA m : Seq1(Len(I), LAMBDA n :
          Sum(Seq1(Len(I), LAMBDA q : I[k][q][m][n] * spbspa[l][q]))
        + Sum(Seq1(Len(I), LAMBDA p : I[p][l][m][n] * spbspa[k][p]))
        + Sum(Seq1(Len(I), LAMBDA s : I[k][l][m][s] * spaspb[n][s]))
        + Sum(Seq1(Len(I), LAMBDA r : I[k][l][r][n] * spaspb[m][r]))))))

\* np.einsum('kpmn,lp->klmn', np.einsum('kpmq,nq->kpmn', I, spa), spb)
Interm4(I, spa, spb) ==
    LET interm == Seq1(Len(I), LAMBDA k : Seq1(Len(I), LAMBDA p : Seq1(Len(I), LAMBDA m :
                      Seq1(Len(I), LAMBDA n :
                          Sum(Seq1(Len(I), LAMBDA q : I[k][p][m][q] * spa[n][q]))))))
    IN  Seq1(Len(I), LAMBDA k : Seq1(Len(I), LAMBDA l : Seq1(Len(I), LAMBDA m : Seq1(Len(I), LAMBDA n :
            Sum(Seq1(Len(I), LAMBDA p : interm[k][p][m][n] * spb[l][p]))))))

\* the eighteen accumulation statements, in the order of the cell
ExchDispTerms(it, t) ==
    LET I       == it.I
        S       == it.S
        Pi      == it.Pi
        Pj      == it.Pj
        h_A     == it.h_A
        h_B     == it.h_B
        w_A     == it.w_A
        w_B     == it.w_B
        KijT    == Tr(it.Kij)
        interm1 == Interm12(I, Dot(S, Pi))
        interm2 == Interm12(I, Dot(S, Pj))
        SPjS    == chain_dot(<<S, Pj, S>>)
        wAPjS   == chain_dot(<<w_A, Pj, S>>)
        SPiS    == chain_dot(<<S, Pi, S>>)
        wBPiS   == chain_dot(<<w_B, Pi, S>>)
        spbspa  == chain_dot(<<S, Pj, S, Pi>>)
        spaspb  == chain_dot(<<S, Pi, S, Pj>>)
        interm3 == Interm3(I, spbspa, spaspb)
        spa     == Dot(S, Pi)
        spb     == Dot(S, Pj)
        interm4 == Interm4(I, spa, spb)
    IN  << FScale(-2, Einsum(t, LAMBDA l, n, k, m : I[k][n][m][l])),
           FScale(-2, Einsum(t, LAMBDA l, n, k, m : h_A[m][l] * S[k][n])),
           FScale(-2, Einsum(t, LAMBDA l, n, k, m : S[m][l] * h_B[k][n])),
           FScale(-2, Einsum(t, LAMBDA l, n, k, m : interm1[k][l][m][n])),
           Einsum(t, LAMBDA l, n, k, m : interm1[m][l][k][n]),
           FScale(-2, Einsum(t, LAMBDA l, n, k, m : interm2[m][n][k][l])),
           Einsum(t, LAMBDA l, n, k, m : interm2[k][n][m][l]),
           FScale(-4, Einsum(t, LAMBDA l, n, k, m : w_A[m][n] * SPjS[k][l])),
           FScale(2, Einsum(t, LAMBDA l, n, k, m : S[k][n] * wAPjS[m][l])),
           FScale(2, Einsum(t, LAMBDA l, n, k, m : S[m][l] * wAPjS[n][k])),
           FScale(-4, Einsum(t, LAMBDA l, n, k, m : w_B[k][l] * SPiS[m][n])),
           FScale(2, Einsum(t, LAMBDA l, n, k, m : S[m][l] * wBPiS[k][n])),
           FScale(2, Einsum(t, LAMBDA l, n, k, m : S[k][n] * wBPiS[l][m])),
           FScale(4, Einsum(t, LAMBDA l, n, k, m : interm3[k][l][m][n])),
           FScale(-2, Einsum(t, LAMBDA l, n, k, m : S[k][n] * KijT[m][l])),
           FScale(-2, Einsum(t, LAMBDA l, n, k, m : S[m][l] * KijT[n][k])),
           FScale(-2, Einsum(t, LAMBDA l, n, k, m : interm4[m][l][k][n])),
           FScale(-2, Einsum(t, LAMBDA l, n, k, m : interm4[n][k][l][m])) >>

\* np.einsum('lnkm,knml->', t_lnkm, I) raises ValueError unless each label has one
\* size in both operands (no axis of the model has size 1, which einsum broadcasts)
EinsumConforms(t, I) ==
    /\ Len(t) = Len(I[1][1][1])
    /\ Len(t[1]) = Len(I[1])
    /\ Len(t[1][1]) = Len(I)
    /\ Len(t[1][1][1]) = Len(I[1][1])

\* the accumulation started from a value that is not the first term
ExchDispEnergy_StaleStart(it, t) == FAdd(FInt(1), FSum(ExchDispTerms(it, t)))

\* ExchDisp20 = first term, then -= / += of the others
ExchDispEnergy(it, t) == FSum(ExchDispTerms(it, t))

(***************************************************************************)
(* Cell "Start E200 Induction and Exchange-Induction": the CPHF            *)
(* amplitudes and the induction energies come from the response solver.    *)
(***************************************************************************)
\* sapt.chf(monomer, ind=True): (CPHF amplitudes, induction energy)
sapt_chf(sp, monomer) == IF monomer = "B" THEN sp.chf.B ELSE sp.chf.A

Induction(sp) ==
    [CPHF_ra  |-> sapt_chf(sp, "B").C,
     Ind20_ba |-> sapt_chf(sp, "B").E,
     CPHF_sb  |-> sapt_chf(sp, "A").C,
     Ind20_ab |-> sapt_chf(sp, "A").E]

(***************************************************************************)
(* Cell "Exchange-Induction".                                              *)
(***************************************************************************)
\* the extra build with the density of B in the tag where that of A belongs
JKjij_OwnDensity(sp, it) ==
    compute_sapt_JK(sp, it.Cj, it.Cj, chain_dot(<<Tr(it.Cj), it.S, it.Pj, it.S, it.Cj>>))

\* Jjij, Kjij = sapt.compute_sapt_JK(Cj, Cj, tensor=sapt.chain_dot(Cj.T, S, Pi, S, Cj))
JKjij(sp, it) ==
    compute_sapt_JK(sp, it.Cj, it.Cj, chain_dot(<<Tr(it.Cj), it.S, it.Pi, it.S, it.Cj>>))

\* Jiji, Kiji = sapt.compute_sapt_JK(Ci, Ci, tensor=sapt.chain_dot(Ci.T, S, Pj, S, Ci))
JKiji(sp, it) ==
    compute_sapt_JK(sp, it.Ci, it.Ci, chain_dot(<<Tr(it.Ci), it.S, it.Pj, it.S, it.Ci>>))

\* CPHFA_ao = sapt.chain_dot(Ci, CPHF_ra.T, Cr.T)
CPHFA(it, CPHF_ra) == chain_dot(<<it.Ci, Tr(CPHF_ra), Tr(it.Cr)>>)

\* CPHFB_ao = sapt.chain_dot(Cj, CPHF_sb.T, Cs.T)
CPHFB(it, CPHF_sb) == chain_dot(<<it.Cj, Tr(CPHF_sb), Tr(it.Cs)>>)

\* A <- B
ExchIndAB(it, CPHFA_ao, Jjij) ==
    LET S   == it.S
        Pi  == it.Pi
        Pj  == it.Pj
        Kij == it.Kij
        e1  == -2 * vdot(CPHFA_ao, it.Kjj)
        e2  == e1 - 2 * vdot(CPHFA_ao, chain_dot(<<S, Pj, it.h_A>>))
        e3  == e2 - 2 * vdot(CPHFA_ao, chain_dot(<<it.h_B, Pj, S>>))
        e4  == e3 - 4 * vdot(CPHFA_ao, it.Jij)
        e5  == e4 + 2 * vdot(CPHFA_ao, Kij)
        e6  == e5 + 2 * vdot(CPHFA_ao, chain_dot(<<it.w_B, Pi, S, Pj, S>>))
        e7  == e6 + 2 * vdot(CPHFA_ao, chain_dot(<<S, Pj, S, Pi, it.w_B>>))
        e8  == e7 + 2 * vdot(CPHFA_ao, chain_dot(<<S, Pj, it.w_A, Pj, S>>))
        e9  == e8 + 4 * vdot(CPHFA_ao, Jjij)
        e10 == e9 - 2 * vdot(CPHFA_ao, chain_dot(<<S, Pj, Tr(Kij)>>))
        e11 == e10 - 2 * vdot(CPHFA_ao, chain_dot(<<Kij, Pj, S>>))
    IN  e11

\* B <- A with K[P_A S P_B] where the exchange of the labels asks for its transpose
ExchIndBA_NoTranspose(it, CPHFB_ao, Jiji) ==
    LET S   == it.S
        Pi  == it.Pi
        Pj  == it.Pj
        Kij == it.Kij
        e1  == -2 * vdot(CPHFB_ao, it.Kii)
        e2  == e1 - 2 * vdot(CPHFB_ao, chain_dot(<<S, Pi, it.h_B>>))
        e3  == e2 - 2 * vdot(CPHFB_ao, chain_dot(<<it.h_A, Pi, S>>))
        e4  == e3 - 4 * vdot(CPHFB_ao, it.Jij)
        e5  == e4 + 2 * vdot(CPHFB_ao, Kij)
        e6  == e5 + 2 * vdot(CPHFB_ao, chain_dot(<<it.w_A, Pj, S, Pi, S>>))
        e7  == e6 + 2 * vdot(CPHFB_ao, chain_dot(<<S, Pi, S, Pj, it.w_A>>))
        e8  == e7 + 2 * vdot(CPHFB_ao, chain_dot(<<S, Pi, it.w_B, Pi, S>>))
        e9  == e8 + 4 * vdot(CPHFB_ao, Jiji)
        e10 == e9 - 2 * vdot(CPHFB_ao, chain_dot(<<S, Pi, Kij>>))
        e11 == e10 - 2 * vdot(CPHFB_ao, chain_dot(<<Tr(Kij), Pi, S>>))
    IN  e11

\* B <- A
ExchIndBA(it, CPHFB_ao, Jiji) ==
    LET S   == it.S
        Pi  == it.Pi
        Pj  == it.Pj
        Kij == it.Kij
        e1  == -2 * vdot(CPHFB_ao, it.Kii)
        e2  == e1 - 2 * vdot(CPHFB_ao, chain_dot(<<S, Pi, it.h_B>>))
        e3  == e2 - 2 * vdot(CPHFB_ao, chain_dot(<<it.h_A, Pi, S>>))
        e4  == e3 - 4 * vdot(CPHFB_ao, it.Jij)
        e5  == e4 + 2 * vdot(CPHFB_ao, Tr(Kij))
        e6  == e5 + 2 * vdot(CPHFB_ao, chain_dot(<<it.w_A, Pj, S, Pi, S>>))
        e7  == e6 + 2 * vdot(CPHFB_ao, chain_dot(<<S, Pi, S, Pj, it.w_A>>))
        e8  == e7 + 2 * vdot(CPHFB_ao, chain_dot(<<S, Pi, it.w_B, Pi, S>>))
        e9  == e8 + 4 * vdot(CPHFB_ao, Jiji)
        e10 == e9 - 2 * vdot(CPHFB_ao, chain_dot(<<S, Pi, Kij>>))
        e11 == e10 - 2 * vdot(CPHFB_ao, chain_dot(<<Tr(Kij), Pi, S>>))
    IN  e11

(***************************************************************************)
(* Cell "SAPT0 Results".                                                   *)
(***************************************************************************)
\* sapt0 = Exch100 + Elst10 + Disp200 + ExchDisp20 + Ind20r + ExchInd20r
Total(exch, elst, dsp, exdsp, indr, exindr) ==
    FAdd(FAdd(FAdd(FAdd(FInt(exch + elst), dsp), exdsp), FInt(indr)), FInt(exindr))

(***************************************************************************)
(* The notebook as a state machine: pc names the next cell to run.         *)
(***************************************************************************)
Init ==
    /\ pc = "intermediates"
    /\ \E s \in 1..NumSeeds, e \in 0..MaxEps, amp \in 0..MaxAmp, x \in 0..MaxExtraRows :
           sapt = Session(s, e, amp, x)
    /\ im = Unset /\ Elst10 = Unset /\ Exch100 = Unset /\ disp = Unset
    /\ Disp200 = Unset /\ t_rsab = Unset /\ t_lnkm = Unset /\ ExchDisp20 = Unset
    /\ ind = Unset /\ Ind20r = Unset /\ exind = Unset /\ ExchInd20_ab = Unset
    /\ ExchInd20_ba = Unset /\ ExchInd20r = Unset /\ sapt0 = Unset

BuildIntermediates ==
    /\ pc = "intermediates"
    /\ im' = Intermediates(sapt)
    /\ pc' = "electrostatics"
    /\ UNCHANGED <<sapt, Elst10, Exch100, disp, Disp200, t_rsab, t_lnkm, ExchDisp20,
                   ind, Ind20r, exind, ExchInd20_ab, ExchInd20_ba, ExchInd20r, sapt0>>

Electrostatics ==
    /\ pc = "electrostatics"
    /\ Elst10' = ElstEnergy(sapt, im)
    /\ pc' = "exchange"
    /\ UNCHANGED <<sapt, im, Exch100, disp, Disp200, t_rsab, t_lnkm, ExchDisp20,
                   ind, Ind20r, exind, ExchInd20_ab, ExchInd20_ba, ExchInd20r, sapt0>>

Exchange100 ==
    /\ pc = "exchange"
    /\ Exch100' = ExchEnergy(sapt, im)
    /\ pc' = "dispersion"
    /\ UNCHANGED <<sapt, im, Elst10, disp, Disp200, t_rsab, t_lnkm, ExchDisp20,
                   ind, Ind20r, exind, ExchInd20_ab, ExchInd20_ba, ExchInd20r, sapt0>>

Dispersion ==
    /\ pc = "dispersion"
    /\ disp' = DispInputs(sapt)
    /\ Disp200' = DispEnergy(disp')
    /\ pc' = "exchange-dispersion"
    /\ UNCHANGED <<sapt, im, Elst10, Exch100, t_rsab, t_lnkm, ExchDisp20,
                   ind, Ind20r, exind, ExchInd20_ab, ExchInd20_ba, ExchInd20r, sapt0>>

ExchangeDispersion ==
    /\ pc = "exchange-dispersion"
    /\ t_rsab' = Amplitudes(disp.v_rsab, disp.e_rsab)
    /\ t_lnkm' = BackTransform(t_rsab', im.Cr, im.Cs, im.Ci, im.Cj)
    /\ IF EinsumConforms(t_lnkm', im.I)
       THEN /\ ExchDisp20' = ExchDispEnergy(im, t_lnkm')
            /\ pc' = "induction"
       ELSE /\ ExchDisp20' = ExchDisp20
            /\ pc' = "error"
    /\ UNCHANGED <<sapt, im, Elst10, Exch100, disp, Disp200,
                   ind, Ind20r, exind, ExchInd20_ab, ExchInd20_ba, ExchInd20r, sapt0>>

InductionCPHF ==
    /\ pc = "induction"
    /\ ind' = Induction(sapt)
    /\ Ind20r' = ind'.Ind20_ba + ind'.Ind20_ab
    /\ pc' = "exchange-induction"
    /\ UNCHANGED <<sapt, im, Elst10, Exch100, disp, Disp200, t_rsab, t_lnkm, ExchDisp20,
                   exind, ExchInd20_ab, ExchInd20_ba, ExchInd20r, sapt0>>

ExchangeInduction ==
    /\ pc = "exchange-induction"
    /\ exind' = [CPHFA_ao |-> CPHFA(im, ind.CPHF_ra),
                 Jjij |-> JKjij(sapt, im).J, Kjij |-> JKjij(sapt, im).K,
                 CPHFB_ao |-> CPHFB(im, ind.CPHF_sb),
                 Jiji |-> JKiji(sapt, im).J, Kiji |-> JKiji(sapt, im).K]
    /\ ExchInd20_ab' = ExchIndAB(im, exind'.CPHFA_ao, exind'.Jjij)
    /\ ExchInd20_ba' = ExchIndBA(im, exind'.CPHFB_ao, exind'.Jiji)
    /\ ExchInd20r' = ExchInd20_ba' + ExchInd20_ab'
    /\ pc' = "summary"
    /\ UNCHANGED <<sapt, im, Elst10, Exch100, disp, Disp200, t_rsab, t_lnkm, ExchDisp20,
                   ind, Ind20r, sapt0>>

Summary ==
    /\ pc = "summary"
    /\ sapt0' = Total(Exch100, Elst10, Disp200, ExchDisp20, Ind20r, ExchInd20r)
    /\ pc' = "done"
    /\ UNCHANGED <<sapt, im, Elst10, Exch100, disp, Disp200, t_rsab, t_lnkm, ExchDisp20,
                   ind, Ind20r, exind, ExchInd20_ab, ExchInd20_ba, ExchInd20r>>

Next ==
    \/ BuildIntermediates
    \/ Electrostatics
    \/ Exchange100
    \/ Dispersion
    \/ ExchangeDispersion
    \/ InductionCPHF
    \/ ExchangeInduction
    \/ Summary

Spec == Init /\ [][Next]_vars

(***************************************************************************)
(* The six term cells run in any order once the intermediates are built.   *)
(* A cell that reads a name no cell has assigned yet stops the run with a  *)
(* NameError; the total is formed when all six energies are there.         *)
(***************************************************************************)
InitAnyOrder ==
    /\ pc = "intermediates"
    /\ \E s \in 1..NumSeeds, e \in 0..MaxEps : sapt = Session(s, e, MaxAmp, 0)
    /\ im = Unset /\ Elst10 = Unset /\ Exch100 = Unset /\ disp = Unset
    /\ Disp200 = Unset /\ t_rsab = Unset /\ t_lnkm = Unset /\ ExchDisp20 = Unset
    /\ ind = Unset /\ Ind20r = Unset /\ exind = Unset /\ ExchInd20_ab = Unset
    /\ ExchInd20_ba = Unset /\ ExchInd20r = Unset /\ sapt0 = Unset

\* the variable x (an integer or a fraction once assigned) has not been assigned
NotProduced(x) == ToString(x) = ToString(Unset)

BuildShared ==
    /\ pc = "intermediates"
    /\ im' = Intermediates(sapt)
    /\ pc' = "terms"
    /\ UNCHANGED <<sapt, Elst10, Exch100, disp, Disp200, t_rsab, t_lnkm, ExchDisp20,
                   ind, Ind20r, exind, ExchInd20_ab, ExchInd20_ba, ExchInd20r, sapt0>>

RunElectrostatics ==
    /\ pc = "terms"
    /\ NotProduced(Elst10)
    /\ Elst10' = ElstEnergy(sapt, im)
    /\ UNCHANGED <<pc, sapt, im, Exch100, disp, Disp200, t_rsab, t_lnkm, ExchDisp20,
                   ind, Ind20r, exind, ExchInd20_ab, ExchInd20_ba, ExchInd20r, sapt0>>

\* the exchange cell transposing Kij in place
RunExchange_TransposesInPlace ==
    /\ pc = "terms"
    /\ NotProduced(Exch100)
    /\ Exch100' = ExchEnergy(sapt, im)
    /\ im' = [im EXCEPT !.Kij = Tr(im.Kij)]
    /\ UNCHANGED <<pc, sapt, Elst10, disp, Disp200, t_rsab, t_lnkm, ExchDisp20, ind,
                   Ind20r, exind, ExchInd20_ab, ExchInd20_ba, ExchInd20r, sapt0>>

RunExchange ==
    /\ pc = "terms"
    /\ NotProduced(Exch100)
    /\ Exch100' = ExchEnergy(sapt, im)
    /\ UNCHANGED <<pc, sapt, im, Elst10, disp, Disp200, t_rsab, t_lnkm, ExchDisp20,
                   ind, Ind20r, exind, ExchInd20_ab, ExchInd20_ba, ExchInd20r, sapt0>>

RunDispersion ==
    /\ pc = "terms"
    /\ NotProduced(Disp200)
    /\ disp' = DispInputs(sapt)
    /\ Disp200' = DispEnergy(disp')
    /\ UNCHANGED <<pc, sapt, im, Elst10, Exch100, t_rsab, t_lnkm, ExchDisp20, ind,
                   Ind20r, exind, ExchInd20_ab, ExchInd20_ba, ExchInd20r, sapt0>>

\* t_rsab = np.einsum(..., v_rsab, e_rsab) reads the names the dispersion cell assigns
RunExchangeDispersion ==
    /\ pc = "terms"
    /\ NotProduced(ExchDisp20)
    /\ IF disp = Unset
       THEN /\ pc' = "error"
            /\ UNCHANGED <<t_rsab, t_lnkm, ExchDisp20>>
       ELSE /\ t_rsab' = Amplitudes(disp.v_rsab, disp.e_rsab)
            /\ t_lnkm' = BackTransform(t_rsab', im.Cr, im.Cs, im.Ci, im.Cj)
            /\ IF EinsumConforms(t_lnkm', im.I)
               THEN /\ ExchDisp20' = ExchDispEnergy(im, t_lnkm')
                    /\ pc' = pc
               ELSE /\ ExchDisp20' = ExchDisp20
                    /\ pc' = "error"
    /\ UNCHANGED <<sapt, im, Elst10, Exch100, disp, Disp200, ind, Ind20r, exind,
                   ExchInd20_ab, ExchInd20_ba, ExchInd20r, sapt0>>

RunInduction ==
    /\ pc = "terms"
    /\ NotProduced(Ind20r)
    /\ ind' = Induction(sapt)
    /\ Ind20r' = ind'.Ind20_ba + ind'.Ind20_ab
    /\ UNCHANGED <<pc, sapt, im, Elst10, Exch100, disp, Disp200, t_rsab, t_lnkm,
                   ExchDisp20, exind, ExchInd20_ab, ExchInd20_ba, ExchInd20r, sapt0>>

\* CPHFA_ao = sapt.chain_dot(Ci, CPHF_ra.T, Cr.T) reads the names the induction cell assigns
RunExchangeInduction ==
    /\ pc = "terms"
    /\ NotProduced(ExchInd20r)
    /\ IF ind = Unset
       THEN /\ pc' = "error"
            /\ UNCHANGED <<exind, ExchInd20_ab, ExchInd20_ba, ExchInd20r>>
       ELSE /\ exind' = [CPHFA_ao |-> CPHFA(im, ind.CPHF_ra),
                         Jjij |-> JKjij(sapt, im).J, Kjij |-> JKjij(sapt, im).K,
                         CPHFB_ao |-> CPHFB(im, ind.CPHF_sb),
                         Jiji |-> JKiji(sapt, im).J, Kiji |-> JKiji(sapt, im).K]
            /\ ExchInd20_ab' = ExchIndAB(im, exind'.CPHFA_ao, exind'.Jjij)
            /\ ExchInd20_ba' = ExchIndBA(im, exind'.CPHFB_ao, exind'.Jiji)
            /\ ExchInd20r' = ExchInd20_ba' + ExchInd20_ab'
            /\ pc' = pc
    /\ UNCHANGED <<sapt, im, Elst10, Exch100, disp, Disp200, t_rsab, t_lnkm,
                   ExchDisp20, ind, Ind20r, sapt0>>

JoinSummary ==
    /\ pc = "terms"
    /\ ~NotProduced(Elst10) /\ ~NotProduced(Exch100) /\ ~NotProduced(Disp200)
    /\ ~NotProduced(ExchDisp20) /\ ~NotProduced(Ind20r) /\ ~NotProduced(ExchInd20r)
    /\ sapt0' = Total(Exch100, Elst10, Disp200, ExchDisp20, Ind20r, ExchInd20r)
    /\ pc' = "done"
    /\ UNCHANGED <<sapt, im, Elst10, Exch100, disp, Disp200, t_rsab, t_lnkm,
                   ExchDisp20, ind, Ind20r, exind, ExchInd20_ab, ExchInd20_ba,
                   ExchInd20r>>

NextAnyOrder ==
    \/ BuildShared
    \/ RunElectrostatics
    \/ RunExchange
    \/ RunDispersion
    \/ RunExchangeDispersion
    \/ RunInduction
    \/ RunExchangeInduction
    \/ JoinSummary

SpecAnyOrder == InitAnyOrder /\ [][NextAnyOrder]_vars

(***************************************************************************)
(* The notebook with the K half of the two extra builds of the             *)
(* exchange-induction cell replaced by an arbitrary matrix.                *)
(***************************************************************************)
\* the energies with the K half of the extra build of A <- B taken for its J half
ExchIndEnergies_ReadsKjij(it, e) ==
    [ab |-> ExchIndAB(it, e.CPHFA_ao, e.Kjij),
     ba |-> ExchIndBA(it, e.CPHFB_ao, e.Jiji)]

\* the two energies of the exchange-induction cell, from the names e the cell has assigned
ExchIndEnergies(it, e) ==
    [ab |-> ExchIndAB(it, e.CPHFA_ao, e.Jjij),
     ba |-> ExchIndBA(it, e.CPHFB_ao, e.Jiji)]

\* the names the cell assigns, given what the two extra builds return
ExchIndNames(it, n, jkjij, jkiji) ==
    [CPHFA_ao |-> CPHFA(it, n.CPHF_ra), Jjij |-> jkjij.J, Kjij |-> jkjij.K,
     CPHFB_ao |-> CPHFB(it, n.CPHF_sb), Jiji |-> jkiji.J, Kiji |-> jkiji.K]

\* an exchange matrix other than the one the builder returns (k = 0: the builder's)
AnyK(k, K) == IF k = 0 THEN K ELSE GenMat(k, 17, Len(K), Len(K))

InitAnyK ==
    /\ pc = "intermediates"
    /\ \E s \in 1..NumSeeds : sapt = Session(s, MaxEps, MaxAmp, 0)
    /\ im = Unset /\ Elst10 = Unset /\ Exch100 = Unset /\ disp = Unset
    /\ Disp200 = Unset /\ t_rsab = Unset /\ t_lnkm = Unset /\ ExchDisp20 = Unset
    /\ ind = Unset /\ Ind20r = Unset /\ exind = Unset /\ ExchInd20_ab = Unset
    /\ ExchInd20_ba = Unset /\ ExchInd20r = Unset /\ sapt0 = Unset

ExchangeInductionAnyK ==
    /\ pc = "exchange-induction"
    /\ \E kj \in 0..NumSeeds, ki \in 0..NumSeeds :
           exind' = ExchIndNames(im, ind,
                        [J |-> JKjij(sapt, im).J, K |-> AnyK(kj, JKjij(sapt, im).K)],
                        [J |-> JKiji(sapt, im).J, K |-> AnyK(ki, JKiji(sapt, im).K)])
    /\ ExchInd20_ab' = ExchIndEnergies(im, exind').ab
    /\ ExchInd20_ba' = ExchIndEnergies(im, exind').ba
    /\ ExchInd20r' = ExchInd20_ba' + ExchInd20_ab'
    /\ pc' = "summary"
    /\ UNCHANGED <<sapt, im, Elst10, Exch100, disp, Disp200, t_rsab, t_lnkm, ExchDisp20,
                   ind, Ind20r, sapt0>>

NextAnyK ==
    \/ BuildIntermediates
    \/ Electrostatics
    \/ Exchange100
    \/ Dispersion
    \/ ExchangeDispersion
    \/ InductionCPHF
    \/ ExchangeInductionAnyK
    \/ Summary

SpecAnyK == InitAnyK /\ [][NextAnyK]_vars

(***************************************************************************)
(* Definitions used to state the properties.                               *)
(***************************************************************************)
\* sum_{K,L} X_KL Y_KL, written out over the indices
Inner(X, Y) ==
    LET RECURSIVE Row(_, _)
        Row(K, L) == IF L = 0 THEN 0 ELSE Row(K, L - 1) + X[K][L] * Y[K][L]
        RECURSIVE Rows(_)
        Rows(K) == IF K = 0 THEN 0 ELSE Rows(K - 1) + Row(K, NBF)
    IN  Rows(NBF)

\* the AO matrix product X.Y
Prod(X, Y) ==
    Seq1(NBF, LAMBDA K : Seq1(NBF, LAMBDA L :
        SumTo(Seq1(NBF, LAMBDA M : X[K][M] * Y[M][L]), NBF)))

\* P^X = C C^T for an occupied-orbital matrix C
Density(C) ==
    Seq1(NBF, LAMBDA K : Seq1(NBF, LAMBDA L :
        SumTo(Seq1(NOcc, LAMBDA a : C[K][a] * C[L][a]), NOcc)))

\* J[X]_KL = sum_MN (KL|MN) X_MN and K[X]_KL = sum_MN (KM|NL) X_MN
JOf(X) ==
    Seq1(NBF, LAMBDA K : Seq1(NBF, LAMBDA L :
        SumTo(Seq1(NBF * NBF, LAMBDA x :
            sapt.I[K][L][((x - 1) \div NBF) + 1][((x - 1) % NBF) + 1]
                * X[((x - 1) \div NBF) + 1][((x - 1) % NBF) + 1]), NBF * NBF)))

KOf(X) ==
    Seq1(NBF, LAMBDA K : Seq1(NBF, LAMBDA L :
        SumTo(Seq1(NBF * NBF, LAMBDA x :
            sapt.I[K][((x - 1) \div NBF) + 1][((x - 1) % NBF) + 1][L]
                * X[((x - 1) \div NBF) + 1][((x - 1) % NBF) + 1]), NBF * NBF)))

MatrixSum(X, Y) == Seq1(NBF, LAMBDA K : Seq1(NBF, LAMBDA L : X[K][L] + Y[K][L]))

MatrixScale(c, X) == Seq1(NBF, LAMBDA K : Seq1(NBF, LAMBDA L : c * X[K][L]))

Transposed(X) == Seq1(NBF, LAMBDA K : Seq1(NBF, LAMBDA L : X[L][K]))

P_A == Density(sapt.orbitals.a)

P_B == Density(sapt.orbitals.b)

\* w^X = v^X + 2 J[P^X] and F^X = v^X + 2 J[P^X] - K[P^X]
Omega_A == MatrixSum(sapt.V_A, MatrixScale(2, JOf(P_A)))

Omega_B == MatrixSum(sapt.V_B, MatrixScale(2, JOf(P_B)))

F_A == MatrixSum(Omega_A, MatrixScale(-1, KOf(P_A)))

F_B == MatrixSum(Omega_B, MatrixScale(-1, KOf(P_B)))

\* the session with the monomer labels A and B exchanged
SwapAB(sp) ==
    [orbitals |-> [a |-> sp.orbitals.b, b |-> sp.orbitals.a,
                   r |-> sp.orbitals.s, s |-> sp.orbitals.r],
     S        |-> sp.S,
     V_A      |-> sp.V_B,
     V_B      |-> sp.V_A,
     I        |-> sp.I,
     nuc_rep  |-> sp.nuc_rep,
     eps      |-> [a |-> sp.eps.b, b |-> sp.eps.a, r |-> sp.eps.s, s |-> sp.eps.r],
     v        |-> [abrs |-> Seq1(NOcc, LAMBDA a : Seq1(NOcc, LAMBDA b :
                                Seq1(NVir, LAMBDA r : Seq1(NVir, LAMBDA s :
                                    sp.v.abrs[b][a][s][r])))),
                   rsab |-> Seq1(NVir, LAMBDA r : Seq1(NVir, LAMBDA s :
                                Seq1(NOcc, LAMBDA a : Seq1(NOcc, LAMBDA b :
                                    sp.v.rsab[s][r][b][a]))))],
     chf      |-> [B |-> sp.chf.A, A |-> sp.chf.B]]

IsZeroMatrix(X) == \A i \in 1..Len(X) : \A j \in 1..Len(X[i]) : X[i][j] = 0

\* tag tensors of the shape the builder takes for the orbitals (Ci, Cj)
TagOf(s) == GenMat(s, 16, NOcc, NOcc)

(***************************************************************************)
(* C1.  J[P_B S P_A] = J[P_A S P_B] and K[P_B S P_A] = K[P_A S P_B]^T:     *)
(* the pair (Jij, Kij.T) the notebook uses for the B-to-A direction equals *)
(* the pair the builder returns when called for (Cj, Ci) with the tag      *)
(* Cj^T S Ci, and equals J and K of the matrix P_B S P_A.                  *)
(***************************************************************************)
C1_JKSymmetry ==
    pc = "electrostatics" =>
        LET ji == compute_sapt_JK(sapt, sapt.orbitals.b, sapt.orbitals.a,
                      chain_dot(<<Tr(sapt.orbitals.b), sapt.S, sapt.orbitals.a>>))
            X  == Prod(Prod(P_B, sapt.S), P_A)
        IN  /\ ji.J = im.Jij
            /\ ji.K = Tr(im.Kij)
            /\ JOf(X) = im.Jij
            /\ KOf(X) = Transposed(im.Kij)
            /\ JOf(Transposed(X)) = im.Jij
            /\ KOf(Transposed(X)) = im.Kij

\* the builder has run for (Ci, Cj) and returned a K that is not symmetric
C1_Witness ==
    /\ pc = "electrostatics"
    /\ im.Kij # Tr(im.Kij)
    /\ ~IsZeroMatrix(im.Jij)
    /\ Prod(Prod(P_A, sapt.S), P_B) # Prod(Prod(P_B, sapt.S), P_A)

(***************************************************************************)
(* C2.  Exchanging the monomer labels in every input leaves Elst10,        *)
(* Exch100 and Disp200 unchanged.                                          *)
(***************************************************************************)
C2_LabelSwapInvariant ==
    pc = "exchange-dispersion" =>
        LET sw == SwapAB(sapt)
            m  == Intermediates(sw)
        IN  /\ ElstEnergy(sw, m) = Elst10
            /\ ExchEnergy(sw, m) = Exch100
            /\ DispEnergy(DispInputs(sw)) = Disp200

\* the three energies are computed, are not zero, and the swap changes the inputs
C2_Witness ==
    /\ pc = "exchange-dispersion"
    /\ Elst10 # 0
    /\ Exch100 # 0
    /\ IsFinite(Disp200) /\ Disp200.n # 0
    /\ im.Pi # im.Pj
    /\ sapt.V_A # sapt.V_B
    /\ sapt.eps.a # sapt.eps.b
    /\ SwapAB(sapt).v # sapt.v

(***************************************************************************)
(* C3.  ExchInd20_ba is the value of the A<-B assembly on the inputs with  *)
(* the monomer labels exchanged, and ExchInd20_ab is the value of the      *)
(* B<-A assembly on them: the label swap swaps the two contributions.      *)
(***************************************************************************)
C3_ExchIndSwap ==
    pc = "summary" =>
        LET sw == SwapAB(sapt)
            m  == Intermediates(sw)
            n  == Induction(sw)
        IN  /\ ExchIndAB(m, CPHFA(m, n.CPHF_ra), JKjij(sw, m).J) = ExchInd20_ba
            /\ ExchIndBA(m, CPHFB(m, n.CPHF_sb), JKiji(sw, m).J) = ExchInd20_ab

\* both directions are computed, differ, and the exchange matrix is not symmetric
C3_Witness ==
    /\ pc = "summary"
    /\ ExchInd20_ab # ExchInd20_ba
    /\ ExchInd20_ab # 0
    /\ ExchInd20_ba # 0
    /\ im.Kij # Tr(im.Kij)
    /\ ~IsZeroMatrix(exind.CPHFA_ao)
    /\ ~IsZeroMatrix(exind.CPHFB_ao)

(***************************************************************************)
(* C4.  The builder is additive in its tag tensor: for the orbitals        *)
(* (Ci, Cj), J and K for the tag T1 + T2 are the element-wise sums of J    *)
(* and K for T1 and for T2; in particular for T1 the tag Ci^T S Cj of the  *)
(* notebook, whose J and K are Jij and Kij.                                *)
(***************************************************************************)
C4_TagAdditive ==
    pc = "electrostatics" =>
        \A s1 \in 0..NumSeeds, s2 \in 1..NumSeeds :
            LET Ci  == sapt.orbitals.a
                Cj  == sapt.orbitals.b
                T1  == IF s1 = 0 THEN TagIJ(Ci, sapt.S, Cj) ELSE TagOf(s1)
                T2  == TagOf(s2)
                jk1 == IF s1 = 0 THEN [J |-> im.Jij, K |-> im.Kij]
                       ELSE compute_sapt_JK(sapt, Ci, Cj, T1)
                jk2 == compute_sapt_JK(sapt, Ci, Cj, T2)
                jk  == compute_sapt_JK(sapt, Ci, Cj, Lin(1, T1, 1, T2))
            IN  /\ jk.J = MatrixSum(jk1.J, jk2.J)
                /\ jk.K = MatrixSum(jk1.K, jk2.K)

\* the builder has run, and some pair of tags gives non-zero J and K on both sides
C4_Witness ==
    /\ pc = "electrostatics"
    /\ ~IsZeroMatrix(im.Jij) /\ ~IsZeroMatrix(im.Kij)
    /\ \E s2 \in 1..NumSeeds :
           LET jk2 == compute_sapt_JK(sapt, sapt.orbitals.a, sapt.orbitals.b, TagOf(s2))
           IN  ~IsZeroMatrix(jk2.J) /\ ~IsZeroMatrix(jk2.K)

(***************************************************************************)
(* C5.  Multiplying t_rsab by a constant c multiplies t_lnkm, each of the  *)
(* accumulated terms and ExchDisp20 by c.                                  *)
(***************************************************************************)
ScaleT4(c, t) ==
    Seq1(Len(t), LAMBDA i : Seq1(Len(t[1]), LAMBDA j : Seq1(Len(t[1][1]), LAMBDA k :
        Seq1(Len(t[1][1][1]), LAMBDA l : FScale(c, t[i][j][k][l])))))

C5_AmplitudeLinear ==
    pc = "induction" =>
        LET terms == ExchDispTerms(im, t_lnkm)
        IN  \A c \in (-MaxScale)..MaxScale :
                LET tl == BackTransform(ScaleT4(c, t_rsab), im.Cr, im.Cs, im.Ci, im.Cj)
                    scaled == ExchDispTerms(im, tl)
                IN  /\ tl = ScaleT4(c, t_lnkm)
                    /\ \A i \in 1..Len(terms) : scaled[i] = FScale(c, terms[i])
                    /\ ExchDispEnergy(im, tl) = FScale(c, ExchDisp20)

\* ExchDisp20 is computed from finite amplitudes and every accumulated term is non-zero
C5_Witness ==
    /\ pc = "induction"
    /\ IsFinite(ExchDisp20) /\ ExchDisp20.n # 0
    /\ \A i \in 1..18 : ExchDispTerms(im, t_lnkm)[i].n # 0

(***************************************************************************)
(* C6.  If v_abrs is identically zero, Disp200 is exactly zero whatever    *)
(* the orbital energies are, zero denominators included.                   *)
(***************************************************************************)
IsZeroT4(t) ==
    \A i \in 1..Len(t) : \A j \in 1..Len(t[i]) : IsZeroMatrix(t[i][j])

C6_DispVanishes ==
    (pc = "exchange-dispersion" /\ IsZeroT4(disp.v_abrs)) => Disp200 = FInt(0)

\* v_abrs is zero, some denominator is zero, and the energy computed is not a number
C6_Witness ==
    /\ pc = "exchange-dispersion"
    /\ IsZeroT4(disp.v_abrs)
    /\ \E r \in 1..NVir, s \in 1..NVir, a \in 1..NOcc, b \in 1..NOcc :
           ~IsFinite(disp.e_rsab[r][s][a][b])
    /\ IsNaN(Disp200)

(***************************************************************************)
(* C8.  ExchDisp20 is the documented expression: the sum over K, L, M, N   *)
(* of t[L,N,K,M] times the bracket of twenty-one terms, for the amplitudes *)
(* the division defines (no zero denominator).                             *)
(***************************************************************************)
SP_A == Prod(sapt.S, P_A)

SP_B == Prod(sapt.S, P_B)

SP_AS == Prod(SP_A, sapt.S)

SP_BS == Prod(SP_B, sapt.S)

wAP_BS == Prod(Prod(Omega_A, P_B), sapt.S)

wBP_AS == Prod(Prod(Omega_B, P_A), sapt.S)

SP_BSP_A == Prod(SP_BS, P_A)

SP_ASP_B == Prod(SP_AS, P_B)

\* K[P^B S P^A]
K_BA == KOf(Prod(Prod(P_B, sapt.S), P_A))

\* sum over Q in the AO basis
SumAO(F(_)) == SumTo(Seq1(NBF, F), NBF)

\* the matrices the documented bracket is written with
BracketOperands ==
    [S |-> sapt.S, I |-> sapt.I, F_A |-> F_A, F_B |-> F_B,
     Omega_A |-> Omega_A, Omega_B |-> Omega_B,
     SP_A |-> SP_A, SP_B |-> SP_B, SP_AS |-> SP_AS, SP_BS |-> SP_BS,
     wAP_BS |-> wAP_BS, wBP_AS |-> wBP_AS,
     SP_BSP_A |-> SP_BSP_A, SP_ASP_B |-> SP_ASP_B, K_BA |-> K_BA]

Bracket(o, K, L, M, N) ==
    LET S == o.S
        I == o.I
    IN  - 2 * I[K][N][M][L]
        - 2 * S[K][N] * o.F_A[M][L]
        - 2 * S[M][L] * o.F_B[K][N]
        - 4 * SumAO(LAMBDA Q : I[K][L][M][Q] * o.SP_A[N][Q])
        + 2 * SumAO(LAMBDA Q : I[M][L][K][Q] * o.SP_A[N][Q])
        - 4 * SumAO(LAMBDA Q : I[M][N][K][Q] * o.SP_B[L][Q])
        + 2 * SumAO(LAMBDA Q : I[K][N][M][Q] * o.SP_B[L][Q])
        - 4 * o.Omega_A[M][N] * o.SP_BS[K][L]
        + 2 * S[K][N] * o.wAP_BS[M][L]
        + 2 * S[M][L] * o.wAP_BS[N][K]
        - 4 * o.Omega_B[K][L] * o.SP_AS[M][N]
        + 2 * S[M][L] * o.wBP_AS[K][N]
        + 2 * S[K][N] * o.wBP_AS[L][M]
        + 4 * SumAO(LAMBDA Q : I[K][Q][M][N] * o.SP_BSP_A[L][Q])
        + 4 * SumAO(LAMBDA P : I[P][L][M][N] * o.SP_BSP_A[K][P])
        + 4 * SumAO(LAMBDA Q : I[K][L][M][Q] * o.SP_ASP_B[N][Q])
        + 4 * SumAO(LAMBDA R : I[K][L][R][N] * o.SP_ASP_B[M][R])
        - 2 * S[K][N] * o.K_BA[M][L]
        - 2 * S[M][L] * o.K_BA[N][K]
        - 2 * SumAO(LAMBDA Q : SumAO(LAMBDA R : I[M][R][K][Q] * o.SP_B[L][R] * o.SP_A[N][Q]))
        - 2 * SumAO(LAMBDA P : SumAO(LAMBDA R : I[N][R][L][P] * o.SP_B[K][R] * o.SP_A[M][P]))

AmplitudesFinite ==
    \A r \in 1..NVir, s \in 1..NVir, a \in 1..NOcc, b \in 1..NOcc :
        IsFinite(t_rsab[r][s][a][b])

C8_ExchDispDocumented ==
    (pc = "induction" /\ AmplitudesFinite) =>
        LET o == BracketOperands
        IN  ExchDisp20 = FSum4(NBF, NBF, NBF, NBF,
                LAMBDA K, L, M, N : FScale(Bracket(o, K, L, M, N), t_lnkm[L][N][K][M]))

\* ExchDisp20 is computed from finite amplitudes, is not zero, and the AO
\* amplitude is not symmetric under the exchange of its index pairs
C8_Witness ==
    /\ pc = "induction"
    /\ AmplitudesFinite
    /\ ExchDisp20.n # 0
    /\ \E K \in 1..NBF, L \in 1..NBF, M \in 1..NBF, N \in 1..NBF :
           /\ t_lnkm[L][N][K][M] # t_lnkm[N][L][M][K]
           /\ t_lnkm[L][N][K][M] # t_lnkm[K][M][L][N]
    /\ im.Kij # Tr(im.Kij)

(***************************************************************************)
(* C9.  Exch100 = -2<P_B,K_A> - 2<P_A S P_B, F_A + F_B>                     *)
(*   + 2<P_B S P_A S P_B, w_A> + 2<P_A S P_B S P_A, w_B>                   *)
(*   - 2<P_A S P_B, K[P_A S P_B]>.                                         *)
(***************************************************************************)
\* K[P_A S P_B]: the K the builder returns for (Ci, Cj) with the tag Ci^T S Cj
K_AB ==
    compute_sapt_JK(sapt, sapt.orbitals.a, sapt.orbitals.b,
                    chain_dot(<<Tr(sapt.orbitals.a), sapt.S, sapt.orbitals.b>>)).K

P_ASP_B == Prod(Prod(P_A, sapt.S), P_B)

ExchTerms ==
    << -2 * Inner(P_B, KOf(P_A)),
       -2 * Inner(P_ASP_B, MatrixSum(F_A, F_B)),
        2 * Inner(Prod(Prod(Prod(Prod(P_B, sapt.S), P_A), sapt.S), P_B), Omega_A),
        2 * Inner(Prod(Prod(Prod(Prod(P_A, sapt.S), P_B), sapt.S), P_A), Omega_B),
       -2 * Inner(P_ASP_B, K_AB) >>

C9_ExchDocumented ==
    pc = "dispersion" => Exch100 = SumTo(ExchTerms, 5)

\* Exch100 is computed and each of the five terms is non-zero
C9_Witness ==
    /\ pc = "dispersion"
    /\ \A i \in 1..5 : ExchTerms[i] # 0
    /\ Exch100 # 0
    /\ F_A # Omega_A /\ F_B # Omega_B

(***************************************************************************)
(* C10.  Elst10 = 2 (2<P_A,J_B> + <V_A,P_B> + <V_B,P_A>) + V_nuc           *)
(*              = 4 P_A.J_B + 2 P_A.v_B + 2 P_B.v_A + V_nuc.               *)
(***************************************************************************)
C10_ElstDocumented ==
    pc = "exchange" =>
        /\ Elst10 = 2 * (2 * Inner(P_A, JOf(P_B)) + Inner(sapt.V_A, P_B)
                         + Inner(sapt.V_B, P_A)) + sapt.nuc_rep
        /\ Elst10 = 4 * Inner(P_A, JOf(P_B)) + 2 * Inner(P_A, sapt.V_B)
                    + 2 * Inner(P_B, sapt.V_A) + sapt.nuc_rep

\* Elst10 is computed and each of its four terms is non-zero
C10_Witness ==
    /\ pc = "exchange"
    /\ Inner(P_A, JOf(P_B)) # 0
    /\ Inner(sapt.V_A, P_B) # 0
    /\ Inner(sapt.V_B, P_A) # 0
    /\ sapt.nuc_rep # 0
    /\ Inner(sapt.V_A, P_B) # Inner(sapt.V_A, P_A)

(***************************************************************************)
(* C11.  For inputs with no zero denominator, t_rsab is v_rsab divided     *)
(* element-wise by eps_a + eps_b - eps_r - eps_s, and Disp200 is           *)
(* 4 * sum over r, s, a, b of t_rsab[r,s,a,b] * v_abrs[a,b,r,s]: the       *)
(* amplitude carries the only factor v_rsab.                               *)
(***************************************************************************)
\* eps_a + eps_b - eps_r - eps_s
Denominator(r, s, a, b) ==
    sapt.eps.a[a] + sapt.eps.b[b] - sapt.eps.r[r] - sapt.eps.s[s]

DenominatorsNonZero ==
    \A r \in 1..NVir, s \in 1..NVir, a \in 1..NOcc, b \in 1..NOcc :
        Denominator(r, s, a, b) # 0

\* x / d for a non-zero d
Quotient(x, d) == FNorm(x, d)

\* sum over r, s, a, b of the four-index array of fractions f
SumRSAB(f) ==
    FSum(Seq1(NVir * NVir * NOcc * NOcc, LAMBDA x :
        LET r == ((x - 1) \div (NVir * NOcc * NOcc)) + 1
            s == (((x - 1) \div (NOcc * NOcc)) % NVir) + 1
            a == (((x - 1) \div NOcc) % NOcc) + 1
            b == ((x - 1) % NOcc) + 1
        IN  f[r][s][a][b]))

\* t_rsab[r,s,a,b] * w[r,s,a,b] for an integer array w
Weighted(t, w) ==
    Seq1(NVir, LAMBDA r : Seq1(NVir, LAMBDA s : Seq1(NOcc, LAMBDA a : Seq1(NOcc, LAMBDA b :
        FScale(w[r][s][a][b], t[r][s][a][b])))))

\* v_rsab[r,s,a,b] * v_abrs[a,b,r,s] and v_abrs[a,b,r,s], indexed r, s, a, b
IntegralProduct ==
    Seq1(NVir, LAMBDA r : Seq1(NVir, LAMBDA s : Seq1(NOcc, LAMBDA a : Seq1(NOcc, LAMBDA b :
        sapt.v.rsab[r][s][a][b] * sapt.v.abrs[a][b][r][s]))))

IntegralABRS ==
    Seq1(NVir, LAMBDA r : Seq1(NVir, LAMBDA s : Seq1(NOcc, LAMBDA a : Seq1(NOcc, LAMBDA b :
        sapt.v.abrs[a][b][r][s]))))

C11_DispFromAmplitude ==
    (pc = "induction" /\ DenominatorsNonZero) =>
        /\ \A r \in 1..NVir, s \in 1..NVir, a \in 1..NOcc, b \in 1..NOcc :
               t_rsab[r][s][a][b] = Quotient(sapt.v.rsab[r][s][a][b], Denominator(r, s, a, b))
        /\ Disp200 = FScale(4, SumRSAB(Weighted(t_rsab, IntegralABRS)))

\* C11 as stated: Disp200 = 4 * sum of t_rsab * v_rsab * v_abrs
C11_DispAsStated ==
    (pc = "induction" /\ DenominatorsNonZero) =>
        Disp200 = FScale(4, SumRSAB(Weighted(t_rsab, IntegralProduct)))

\* no denominator is zero, Disp200 is not zero, and some element has v_rsab = -1
\* with a non-zero v_abrs, where the second factor v_rsab changes the sign
C11_Witness ==
    /\ pc = "induction"
    /\ DenominatorsNonZero
    /\ IsFinite(Disp200) /\ Disp200.n # 0
    /\ \E r \in 1..NVir, s \in 1..NVir, a \in 1..NOcc, b \in 1..NOcc :
           sapt.v.rsab[r][s][a][b] = -1 /\ sapt.v.abrs[a][b][r][s] # 0

(***************************************************************************)
(* C12.  When some denominator eps_a + eps_b - eps_r - eps_s is zero, the  *)
(* dispersion step ends in an error instead of dividing: no Disp200, no    *)
(* ExchDisp20 and no total is ever produced from such an input.            *)
(***************************************************************************)
C12_ZeroDenominatorDetected ==
    ~DenominatorsNonZero =>
        /\ Disp200 = Unset
        /\ ExchDisp20 = Unset
        /\ sapt0 = Unset

\* a denominator is zero and the run has gone through to a total that is not a number
C12_Witness ==
    /\ pc = "done"
    /\ ~DenominatorsNonZero
    /\ \E r \in 1..NVir, s \in 1..NVir, a \in 1..NOcc, b \in 1..NOcc :
           ~IsFinite(disp.e_rsab[r][s][a][b]) /\ ~IsFinite(t_rsab[r][s][a][b])
    /\ ~IsFinite(Disp200)
    /\ ~IsFinite(ExchDisp20)
    /\ ~IsFinite(sapt0)

(***************************************************************************)
(* C13.  When the orbital matrices, the overlap and attraction matrices    *)
(* and the integral tensor do not agree on the size of the AO basis, the   *)
(* run aborts before any energy term is produced: no energy and no total   *)
(* is ever assigned.                                                       *)
(***************************************************************************)
\* some matrix of the session has a number of AO rows that is not that of S
Mismatched ==
    \/ \E o \in {"a", "b", "r", "s"} : Len(sapt.orbitals[o]) # Len(sapt.S)
    \/ Len(sapt.V_A) # Len(sapt.S)
    \/ Len(sapt.V_B) # Len(sapt.S)
    \/ Len(sapt.I) # Len(sapt.S)

C13_MismatchAbortsFirst ==
    Mismatched =>
        /\ NotProduced(Elst10) /\ NotProduced(Exch100) /\ NotProduced(Disp200)
        /\ NotProduced(ExchDisp20) /\ NotProduced(Ind20r) /\ NotProduced(ExchInd20r)
        /\ NotProduced(sapt0)

\* the run of a mismatched session has ended in the einsum's error with three
\* energies already produced
C13_Witness ==
    /\ pc = "error"
    /\ Mismatched
    /\ ~NotProduced(Elst10) /\ ~NotProduced(Exch100) /\ ~NotProduced(Disp200)
    /\ Len(t_lnkm) # Len(im.I)
    /\ NotProduced(ExchDisp20) /\ NotProduced(sapt0)

(***************************************************************************)
(* C14.  With the six term cells run in any order: no cell writes a shared *)
(* intermediate; a run stops in an error only when the exchange-dispersion *)
(* cell runs before the dispersion cell (it reads v_rsab and e_rsab) or    *)
(* the exchange-induction cell before the induction cell (it reads CPHF_ra *)
(* and CPHF_sb); every energy produced, and the total, is the value the    *)
(* notebook order gives.                                                   *)
(***************************************************************************)
\* the energies of the cells run in the order of the notebook
InOrderElst == ElstEnergy(sapt, Intermediates(sapt))

InOrderExch == ExchEnergy(sapt, Intermediates(sapt))

InOrderDisp == DispEnergy(DispInputs(sapt))

InOrderExchDisp ==
    LET m == Intermediates(sapt)
        d == DispInputs(sapt)
        t == BackTransform(Amplitudes(d.v_rsab, d.e_rsab), m.Cr, m.Cs, m.Ci, m.Cj)
    IN  ExchDispEnergy(m, t)

InOrderInd == Induction(sapt).Ind20_ba + Induction(sapt).Ind20_ab

InOrderExchInd ==
    LET m == Intermediates(sapt)
        n == Induction(sapt)
    IN  ExchIndBA(m, CPHFB(m, n.CPHF_sb), JKiji(sapt, m).J)
        + ExchIndAB(m, CPHFA(m, n.CPHF_ra), JKjij(sapt, m).J)

SameEnergies ==
    /\ NotProduced(Elst10) \/ Elst10 = InOrderElst
    /\ NotProduced(Exch100) \/ Exch100 = InOrderExch
    /\ NotProduced(Disp200) \/ Disp200 = InOrderDisp
    /\ NotProduced(ExchDisp20) \/ ExchDisp20 = InOrderExchDisp
    /\ NotProduced(Ind20r) \/ Ind20r = InOrderInd
    /\ NotProduced(ExchInd20r) \/ ExchInd20r = InOrderExchInd
    /\ pc = "done" => sapt0 = Total(Exch100, Elst10, Disp200, ExchDisp20, Ind20r, ExchInd20r)

C14_OrderUpToReuse ==
    pc # "intermediates" =>
        /\ im = Intermediates(sapt)
        /\ pc = "error" => \/ disp = Unset /\ NotProduced(ExchDisp20)
                           \/ ind = Unset /\ NotProduced(ExchInd20r)
        /\ SameEnergies

\* C14 as stated: every order of the six cells runs through, with the same energies
C14_AnyOrderExecutable ==
    pc # "intermediates" =>
        /\ im = Intermediates(sapt)
        /\ pc # "error"
        /\ SameEnergies

\* a run in another order than the notebook's: both second-order exchange terms are
\* produced before the first-order terms
C14_Witness ==
    /\ pc = "terms"
    /\ ~NotProduced(ExchDisp20) /\ ~NotProduced(ExchInd20r)
    /\ NotProduced(Elst10) /\ NotProduced(Exch100)
    /\ IsFinite(ExchDisp20) /\ ExchDisp20.n # 0
    /\ ExchInd20r # 0

(***************************************************************************)
(* C15.  t_lnkm[L,N,K,M] is the sum over r, s, a, b of                     *)
(* t_rsab[r,s,a,b] * Cr[L,r] * Cs[N,s] * Ci[K,a] * Cj[M,b], and the four   *)
(* single-index steps give the same t_lnkm in each of their 24 orders.     *)
(***************************************************************************)
\* step i of the cell: the einsum that transforms axis i of t
Step(i, t) ==
    CASE i = 1 -> Transform1(t, Tr(im.Cr))
      [] i = 2 -> Transform2(t, Tr(im.Cs))
      [] i = 3 -> Transform3(t, Tr(im.Ci))
      [] i = 4 -> Transform4(t, Tr(im.Cj))

\* the 24 orders of the four steps
StepOrders == {p \in [1..4 -> 1..4] : \A i, j \in 1..4 : p[i] = p[j] => i = j}

InOrderOf(p, t) == Step(p[4], Step(p[3], Step(p[2], Step(p[1], t))))

\* the documented amplitude, summed directly over the four MO indices
DirectAmplitude(L, N, K, M) ==
    FSum(Seq1(NVir * NVir * NOcc * NOcc, LAMBDA x :
        LET r == ((x - 1) \div (NVir * NOcc * NOcc)) + 1
            s == (((x - 1) \div (NOcc * NOcc)) % NVir) + 1
            a == (((x - 1) \div NOcc) % NOcc) + 1
            b == ((x - 1) % NOcc) + 1
        IN  FScale(im.Cr[L][r] * im.Cs[N][s] * im.Ci[K][a] * im.Cj[M][b],
                   t_rsab[r][s][a][b])))

C15_BackTransformOrder ==
    pc \in {"induction", "error"} =>
        /\ \A L \in 1..Len(im.Cr), N \in 1..Len(im.Cs), K \in 1..Len(im.Ci), M \in 1..Len(im.Cj) :
               t_lnkm[L][N][K][M] = DirectAmplitude(L, N, K, M)
        /\ pc = "induction" => \A p \in StepOrders : InOrderOf(p, t_rsab) = t_lnkm

\* a back-transformed amplitude with finite non-zero elements, built from different
\* virtual orbitals on A and B, that changes when its index pairs are exchanged
C15_Witness ==
    /\ pc = "induction"
    /\ AmplitudesFinite
    /\ im.Cr # im.Cs /\ im.Ci # im.Cj
    /\ \E L \in 1..NBF, N \in 1..NBF, K \in 1..NBF, M \in 1..NBF :
           /\ t_lnkm[L][N][K][M].n # 0
           /\ t_lnkm[L][N][K][M] # t_lnkm[N][L][M][K]

(***************************************************************************)
(* C16.  ExchInd20_ab = <C_AO, -2 K^B - 2 S P^B F^A - 2 F^B P^B S          *)
(*   - 4 J[P^B S P^A] + 2 K[P^A S P^B] + 2 w^B P^A S P^B S                 *)
(*   + 2 S P^B S P^A w^B + 2 S P^B w^A P^B S + 4 J[P^B S P^A S P^B]        *)
(*   - 2 S P^B K[P^B S P^A] - 2 K[P^A S P^B] P^B S>,                       *)
(* with C_AO[K,L] = sum over a, r of CPHF_ra[r,a] Ci[K,a] Cr[L,r], and the *)
(* Jjij of the builder is J[P^B S P^A S P^B].                              *)
(***************************************************************************)
\* the CPHF amplitudes of monomer A in the AO basis
C_AO ==
    Seq1(NBF, LAMBDA K : Seq1(NBF, LAMBDA L :
        SumTo(Seq1(NOcc * NVir, LAMBDA x :
            LET a == ((x - 1) \div NVir) + 1
                r == ((x - 1) % NVir) + 1
            IN  sapt.chf.B.C[r][a] * sapt.orbitals.a[K][a] * sapt.orbitals.r[L][r]),
              NOcc * NVir)))

\* the product of the matrices of a tuple, from the left
ProdOf(Ms) ==
    LET RECURSIVE Upto(_)
        Upto(n) == IF n = 1 THEN Ms[1] ELSE Prod(Upto(n - 1), Ms[n])
    IN  Upto(Len(Ms))

\* the eleven matrices of the documented bracket, with their weights
ExchIndMatrices ==
    LET S   == sapt.S
        PA  == P_A
        PB  == P_B
        wA  == Omega_A
        wB  == Omega_B
        FA  == F_A
        FB  == F_B
        KAB == KOf(ProdOf(<<PA, S, PB>>))
        KBA == KOf(ProdOf(<<PB, S, PA>>))
    IN  << MatrixScale(-2, KOf(PB)),
           MatrixScale(-2, ProdOf(<<S, PB, FA>>)),
           MatrixScale(-2, ProdOf(<<FB, PB, S>>)),
           MatrixScale(-4, JOf(ProdOf(<<PB, S, PA>>))),
           MatrixScale(2, KAB),
           MatrixScale(2, ProdOf(<<wB, PA, S, PB, S>>)),
           MatrixScale(2, ProdOf(<<S, PB, S, PA, wB>>)),
           MatrixScale(2, ProdOf(<<S, PB, wA, PB, S>>)),
           MatrixScale(4, JOf(ProdOf(<<PB, S, PA, S, PB>>))),
           MatrixScale(-2, ProdOf(<<S, PB, KBA>>)),
           MatrixScale(-2, ProdOf(<<KAB, PB, S>>)) >>

C16_ExchIndDocumented ==
    pc = "summary" =>
        LET c == C_AO
            B == ExchIndMatrices
        IN  /\ exind.CPHFA_ao = c
            /\ exind.Jjij = JOf(ProdOf(<<P_B, sapt.S, P_A, sapt.S, P_B>>))
            /\ ExchInd20_ab = SumTo(Seq1(11, LAMBDA i : Inner(c, B[i])), 11)

\* ExchInd20_ab is computed and not zero, with non-zero AO amplitudes, a non-zero
\* contribution of Jjij and a non-symmetric K[P_A S P_B]
C16_Witness ==
    /\ pc = "summary"
    /\ ExchInd20_ab # 0
    /\ ~IsZeroMatrix(exind.CPHFA_ao)
    /\ Inner(C_AO, exind.Jjij) # 0
    /\ im.Kij # Tr(im.Kij)
    /\ Inner(C_AO, ProdOf(<<sapt.S, P_B, Transposed(im.Kij)>>))
           # Inner(C_AO, ProdOf(<<sapt.S, P_B, im.Kij>>))

(***************************************************************************)
(* C17.  Whatever matrices stand for Kjij and Kiji, ExchInd20_ab,          *)
(* ExchInd20_ba, ExchInd20r and the total are those of the run with the    *)
(* exchange matrices the builder returns: two runs that agree on every     *)
(* input and on Jjij and Jiji agree on all four.                           *)
(***************************************************************************)
\* the names of the exchange-induction cell in the run with the builder's own Kjij, Kiji
BuilderRun == ExchIndNames(im, ind, JKjij(sapt, im), JKiji(sapt, im))

C17_ExtraExchangeUnused ==
    pc \in {"summary", "done"} =>
        LET ref == BuilderRun
            en  == ExchIndEnergies(im, ref)
        IN  /\ exind.Jjij = ref.Jjij /\ exind.Jiji = ref.Jiji
            /\ ExchInd20_ab = en.ab
            /\ ExchInd20_ba = en.ba
            /\ ExchInd20r = en.ba + en.ab
            /\ pc = "done" => sapt0 = Total(Exch100, Elst10, Disp200, ExchDisp20, Ind20r,
                                            en.ba + en.ab)

\* a finished run whose Kjij and Kiji are both not the builder's, with non-zero
\* exchange-induction energies
C17_Witness ==
    /\ pc = "done"
    /\ exind.Kjij # BuilderRun.Kjij
    /\ exind.Kiji # BuilderRun.Kiji
    /\ exind.Kjij # exind.Jjij
    /\ ExchInd20_ab # 0 /\ ExchInd20_ba # 0
    /\ IsFinite(sapt0)

====
